---- MODULE Spec2Model ----
(***************************************************************************)
(* Model of the code-execution service of codejoin-backend                 *)
(* (src/unnamed/part_000, lines 135-569: codeExecution.js, and the two     *)
(* routes of the HTTP layer that call it, lines 77-103).                   *)
(*                                                                         *)
(* One execution is one call of executeCode followed by the un-awaited     *)
(* task runCode.  Every action below is one synchronous segment of the     *)
(* JavaScript code, from one await to the next; the outcome of each call   *)
(* to an external system (the Redis client, the Docker engine) is chosen   *)
(* nondeterministically where the call resolves.                           *)
(***************************************************************************)
EXTENDS Integers, Sequences, FiniteSets, TLC

VARIABLES
    redisClient,    \* TRUE while the module variable redisClient is non-null
    redis,          \* the primary backend: key execution:<id> -> JSON snapshot
    memoryStorage,  \* the module-level Map: id -> execution object
    pc,             \* per execution: the await its task is suspended at
    execution,      \* per execution: runCode's local `execution`
    container,      \* per execution: the engine's container of runCode
    timer,          \* per execution: the setTimeout handle of runCode
    result,         \* per execution: what Promise.race settled with, or the
                    \* error thrown before it
    http,           \* the last answer of POST /api/execute, with its request
    calls,          \* per execution: the calls made to the engine and the store
    capture         \* the call of getContainerOutput that CaptureSpec studies

vars == <<redisClient, redis, memoryStorage, pc, execution, container, timer,
          result, http, calls, capture>>

(***************************************************************************)
(* Bounds of the model.                                                    *)
(***************************************************************************)
MaxExec == 2

Ids == 1..MaxExec

(***************************************************************************)
(* Values.                                                                 *)
(***************************************************************************)
Null == "<null>"          \* JavaScript null
Undefined == <<>>         \* JavaScript undefined, for a string-valued key
Str(n) == <<n>>           \* a string of n characters
NoRecord == [absent |-> TRUE]   \* Map.get / redis GET found nothing
\* a key the primary dropped at the end of its lifetime: to the program the
\* same as a key never written, kept apart here to tell the two cases
Expired == [absent |-> TRUE, expired |-> TRUE]
Absent(rec) == "absent" \in DOMAIN rec

LANGUAGE_CONFIG == {"javascript", "python", "java", "cpp", "c"}

MaxCodeLength == 50000
MaxInputLength == 10000
MinTimeout == 1
DefaultTimeout == 10
MsThreshold == 1000

(***************************************************************************)
(* Requests.  A request body is a function from the keys it holds to their *)
(* values: language a string, code and input the length of the string,     *)
(* timeout an integer.  A key that is missing is not in the domain.        *)
(***************************************************************************)
Has(req, key) == key \in DOMAIN req

\* Math.ceil(t / 1000) for an integer t
CeilDiv(t, d) == IF t % d = 0 THEN t \div d ELSE (t \div d) + 1

\* a plausible slip: Math.floor instead of Math.ceil
FloorTimeout(req) ==
    IF Has(req, "timeout") /\ req.timeout # 0 /\ req.timeout > MsThreshold
    THEN [req EXCEPT !.timeout = req.timeout \div MsThreshold]
    ELSE req

\* lines 251-254: the request's timeout is rewritten in place before validation
NormalizeTimeout(req) ==
    IF Has(req, "timeout") /\ req.timeout # 0 /\ req.timeout > MsThreshold
    THEN [req EXCEPT !.timeout = CeilDiv(req.timeout, MsThreshold)]
    ELSE req

\* a plausible slip: the language list is not enforced
AnyLanguageValid(req) ==
    /\ Has(req, "language")
    /\ Has(req, "code") /\ req.code >= 1 /\ req.code <= MaxCodeLength
    /\ (Has(req, "input") => req.input <= MaxInputLength)
    /\ (Has(req, "timeout") => req.timeout >= MinTimeout)

\* a plausible slip: the size limits are not enforced
NoSizeLimitValid(req) ==
    /\ Has(req, "language") /\ req.language \in LANGUAGE_CONFIG
    /\ Has(req, "code") /\ req.code >= 1
    /\ (Has(req, "timeout") => req.timeout >= MinTimeout)

\* executionRequestSchema.validate reports no error (Joi: a required string is
\* not empty unless allowed to be; a key with a default may be missing)
SchemaValid(req) ==
    /\ Has(req, "language") /\ req.language \in LANGUAGE_CONFIG
    /\ Has(req, "code") /\ req.code >= 1 /\ req.code <= MaxCodeLength
    /\ (Has(req, "input") => req.input >= 0 /\ req.input <= MaxInputLength)
    /\ (Has(req, "timeout") => req.timeout >= MinTimeout)

\* the `value` of a successful validation: defaults filled in
SchemaValue(req) ==
    [language |-> req.language,
     code     |-> Str(req.code),
     input    |-> IF Has(req, "input") THEN Str(req.input) ELSE Undefined,
     timeout  |-> IF Has(req, "timeout") THEN req.timeout ELSE DefaultTimeout]

\* a plausible slip: the initial record starts with an empty output
NewExecutionEmptyOutput(id, value) ==
    [id        |-> id,
     status    |-> "pending",
     language  |-> value.language,
     code      |-> value.code,
     input     |-> value.input,
     timeout   |-> value.timeout,
     startTime |-> "t_start",
     endTime   |-> Null,
     output    |-> "",
     error     |-> Null]

\* lines 264-275: the initial record
NewExecution(id, value) ==
    [id        |-> id,
     status    |-> "pending",
     language  |-> value.language,
     code      |-> value.code,
     input     |-> value.input,
     timeout   |-> value.timeout,
     startTime |-> "t_start",
     endTime   |-> Null,
     output    |-> Null,
     error     |-> Null]

\* JSON.stringify followed by JSON.parse (and res.json on the way out): a key
\* whose value is undefined is dropped, every other value of a record survives
ToJSON(rec) ==
    IF Absent(rec) THEN NoRecord
    ELSE IF "input" \in DOMAIN rec /\ rec.input = Undefined
         THEN [k \in DOMAIN rec \ {"input"} |-> rec[k]]
         ELSE rec

IsRecord(rec) == ~Absent(rec)
Terminal(rec) == IsRecord(rec) /\ rec.status \in {"completed", "failed"}
Pending(rec) == IsRecord(rec) /\ rec.status = "pending"

(***************************************************************************)
(* The record store (lines 310-339).  `ok` is the outcome of the call to   *)
(* the primary: TRUE when it resolves, FALSE when it rejects; it is read   *)
(* only when redisClient is non-null.                                      *)
(***************************************************************************)
\* a store that forgets to look at redisClient
UsesPrimaryUnchecked(ok) == ok

UsesPrimary(ok) == redisClient /\ ok

\* storeExecution: setEx of the JSON text, or Map.set of the object itself
StoreExecution(id, rec, ok) ==
    IF UsesPrimary(ok)
    THEN /\ redis' = [redis EXCEPT ![id] = ToJSON(rec)]
         /\ UNCHANGED memoryStorage
    ELSE /\ memoryStorage' = [memoryStorage EXCEPT ![id] = rec]
         /\ UNCHANGED redis

\* a plausible slip: the key of the lookup does not hold the id
GetExecutionShared(id, ok) ==
    IF UsesPrimary(ok)
    THEN IF Absent(redis[1]) THEN NoRecord ELSE redis[1]
    ELSE memoryStorage[1]

\* getExecution: the parsed text of the primary (null when it has none), or
\* whatever the Map holds when the primary is not configured or rejects
GetExecution(id, ok) ==
    IF UsesPrimary(ok)
    THEN IF Absent(redis[id]) THEN NoRecord ELSE redis[id]
    ELSE memoryStorage[id]

\* getExecutionStatus as the route sends it: res.json of the record, or the
\* 404 of 'Execution not found'
GetExecutionStatus(id, ok) == ToJSON(GetExecution(id, ok))

\* GET /api/status/:id (lines 91-103): the record with the default status 200,
\* or 404 when getExecutionStatus throws
StatusRoute(id, ok) ==
    IF Absent(GetExecution(id, ok))
    THEN [code |-> 404, error |-> "Execution not found"]
    ELSE [code |-> 200, body |-> GetExecutionStatus(id, ok)]

(***************************************************************************)
(* runCode's local `execution`.  An object read from the Map is the object *)
(* the Map holds (ref = "mem"): assigning to its fields changes the Map's  *)
(* entry.  An object parsed from the primary's text is the task's own.     *)
(***************************************************************************)
Unread == [ref |-> "unread", val |-> NoRecord]

ReadExecution(id, ok) ==
    LET rec == GetExecution(id, ok) IN
    IF rec = NoRecord THEN [ref |-> "null", val |-> NoRecord]
    ELSE IF UsesPrimary(ok) THEN [ref |-> "own", val |-> rec]
    ELSE [ref |-> "mem", val |-> NoRecord]

Local(id) ==
    IF execution[id].ref = "mem" THEN memoryStorage[id] ELSE execution[id].val

\* a plausible slip: the terminal assignment stamps startTime as well
CompletedRestamped(rec, res) ==
    [rec EXCEPT !.status = "completed", !.output = res.stdout,
                !.error = res.stderr, !.startTime = "t_end", !.endTime = "t_end"]

\* lines 406-409
Completed(rec, res) ==
    [rec EXCEPT !.status = "completed", !.output = res.stdout,
                !.error = res.stderr, !.endTime = "t_end"]

\* a plausible slip: the catch block forgets endTime
FailedNoEndTime(rec, message) ==
    [rec EXCEPT !.status = "failed", !.error = message]

\* a plausible slip: a timeout gets a status of its own
FailedAsTimeout(rec, message) ==
    [rec EXCEPT !.status = IF message = "Execution timeout" THEN "timeout"
                           ELSE "failed",
                !.error = message, !.endTime = "t_end"]

\* lines 413-415
Failed(rec, message) ==
    [rec EXCEPT !.status = "failed", !.error = message, !.endTime = "t_end"]

\* the field assignments of runCode applied to its local object
Assign(id, rec) ==
    IF execution[id].ref = "mem"
    THEN /\ memoryStorage' = [memoryStorage EXCEPT ![id] = rec]
         /\ UNCHANGED execution
    ELSE /\ execution' = [execution EXCEPT ![id].val = rec]
         /\ UNCHANGED memoryStorage

NoResult == [kind |-> "none"]

(***************************************************************************)
(* Buffers and text.  A buffer is a sequence of bytes, a text a sequence of *)
(* code points; offsets count from 0 as in the code.                       *)
(***************************************************************************)
ReplacementChar == 65533

\* the code points String.prototype.trim removes
WhiteSpace ==
    {9, 10, 11, 12, 13, 32, 160, 5760, 8232, 8233, 8239, 8287, 12288, 65279}
        \cup (8192..8202)

\* buffer.slice(start, end)
Slice(buffer, start, end) == SubSeq(buffer, start + 1, end)

\* buffer.readUInt8(offset)
ReadUInt8(buffer, offset) == buffer[offset + 1]

\* buffer.readUInt32BE(offset)
ReadUInt32BE(buffer, offset) ==
    ((buffer[offset + 1] * 256 + buffer[offset + 2]) * 256
        + buffer[offset + 3]) * 256 + buffer[offset + 4]

\* buffer.toString('utf8'): a byte below 128 is its code point, a two-byte
\* sequence is decoded, a byte that begins or continues no complete sequence
\* becomes U+FFFD.  (The buffers of the model hold no lead byte of a three-
\* or four-byte sequence.)
RECURSIVE ToStringUtf8(_)
ToStringUtf8(bytes) ==
    IF bytes = <<>> THEN <<>>
    ELSE IF Head(bytes) < 128
    THEN <<Head(bytes)>> \o ToStringUtf8(Tail(bytes))
    ELSE IF /\ Head(bytes) >= 194 /\ Head(bytes) <= 223 /\ Len(bytes) >= 2
            /\ bytes[2] >= 128 /\ bytes[2] <= 191
    THEN <<(Head(bytes) - 192) * 64 + (bytes[2] - 128)>>
             \o ToStringUtf8(SubSeq(bytes, 3, Len(bytes)))
    ELSE <<ReplacementChar>> \o ToStringUtf8(Tail(bytes))

RECURSIVE TrimStart(_)
TrimStart(text) ==
    IF text # <<>> /\ Head(text) \in WhiteSpace THEN TrimStart(Tail(text))
    ELSE text

RECURSIVE TrimEnd(_)
TrimEnd(text) ==
    IF text # <<>> /\ text[Len(text)] \in WhiteSpace
    THEN TrimEnd(SubSeq(text, 1, Len(text) - 1))
    ELSE text

\* String.prototype.trim
Trim(text) == TrimEnd(TrimStart(text))

\* Array.prototype.join('') of an array of texts, Buffer.concat of buffers
RECURSIVE Join(_)
Join(chunks) ==
    IF chunks = <<>> THEN <<>> ELSE Head(chunks) \o Join(Tail(chunks))

\* one code point as it is written in a string of the model
Chr(c) ==
    IF c = 104 THEN "h" ELSE IF c = 105 THEN "i" ELSE IF c = 32 THEN " "
    ELSE "<" \o ToString(c) \o ">"

\* a text as the JavaScript string the record and the answer hold
RECURSIVE Text(_)
Text(text) == IF text = <<>> THEN "" ELSE Chr(Head(text)) \o Text(Tail(text))

(***************************************************************************)
(* parseDockerLogs (lines 526-566).                                        *)
(***************************************************************************)

\* a plausible slip: only selector 1 is standard output
StreamOfStrict(streamType) == IF streamType = 1 THEN "stdout" ELSE "stderr"

\* lines 542-548: the array a chunk is pushed to
StreamOf(streamType) == IF streamType = 2 THEN "stderr" ELSE "stdout"

\* lines 531-551: the chunks the loop pushes from `offset` on, in order
RECURSIVE ParseFrames(_, _)
ParseFrames(buffer, offset) ==
    IF offset + 8 > Len(buffer) THEN <<>>
    ELSE LET streamType == ReadUInt8(buffer, offset)
             frameLength == ReadUInt32BE(buffer, offset + 4)
             frameStart == offset + 8
             frameEnd == frameStart + frameLength
         IN  IF frameEnd > Len(buffer) THEN <<>>
             ELSE <<[stream |-> StreamOf(streamType),
                     chunk  |-> ToStringUtf8(Slice(buffer, frameStart, frameEnd))]>>
                    \o ParseFrames(buffer, frameEnd)

\* a loop without the check of line 538: the offset is moved to frameEnd even
\* when the payload overruns the buffer
RECURSIVE LoopTraceNoBreak(_, _)
LoopTraceNoBreak(buffer, offset) ==
    IF offset + 8 > Len(buffer) THEN <<>>
    ELSE LET frameLength == ReadUInt32BE(buffer, offset + 4)
             frameStart == offset + 8
             frameEnd == frameStart + frameLength
         IN  <<[offset |-> offset,
                reads |-> {offset} \cup (offset + 4 .. offset + 7)
                              \cup (frameStart .. frameEnd - 1),
                stopped |-> FALSE, next |-> frameEnd]>>
                    \o LoopTraceNoBreak(buffer, frameEnd)

\* lines 531-551, iteration by iteration: the offset at which the iteration
\* starts, the positions of the buffer it reads (from 0, as the code counts),
\* whether it leaves the loop (line 538), and the offset it ends with
RECURSIVE LoopTrace(_, _)
LoopTrace(buffer, offset) ==
    IF offset + 8 > Len(buffer) THEN <<>>
    ELSE LET frameLength == ReadUInt32BE(buffer, offset + 4)
             frameStart == offset + 8
             frameEnd == frameStart + frameLength
         IN  IF frameEnd > Len(buffer)
             THEN <<[offset |-> offset,
                     reads |-> {offset} \cup (offset + 4 .. offset + 7),
                     stopped |-> TRUE, next |-> offset]>>
             ELSE <<[offset |-> offset,
                     reads |-> {offset} \cup (offset + 4 .. offset + 7)
                                   \cup (frameStart .. frameEnd - 1),
                     stopped |-> FALSE, next |-> frameEnd]>>
                        \o LoopTrace(buffer, frameEnd)

\* the array `stdout` or `stderr` after the loop
ChunksOf(frames, stream) ==
    LET own == SelectSeq(frames, LAMBDA f : f.stream = stream)
    IN  [i \in 1..Len(own) |-> own[i].chunk]

\* a plausible slip: the fallback is taken when the joined text is empty
NothingParsedByText(stdout, stderr) == Join(stdout) = <<>> /\ Join(stderr) = <<>>

\* line 554
NothingParsed(stdout, stderr) == Len(stdout) = 0 /\ Len(stderr) = 0

ParseDockerLogs(buffer) ==
    LET frames == ParseFrames(buffer, 0)
        stdout == ChunksOf(frames, "stdout")
        stderr == ChunksOf(frames, "stderr")
    IN  IF NothingParsed(stdout, stderr)
        THEN [stdout |-> Text(Trim(ToStringUtf8(buffer))), stderr |-> ""]
        ELSE [stdout |-> Text(Trim(Join(stdout))),
              stderr |-> Text(Trim(Join(stderr)))]

(***************************************************************************)
(* getContainerOutput (lines 444-524), by what it returns.  `logs` is the  *)
(* outcome of container.logs: it raises, or it resolves with a buffer;     *)
(* `inspectOk` and `exitCode` are the outcome of container.inspect where   *)
(* it is called.                                                           *)
(***************************************************************************)
LogsRaise == [raised |-> TRUE]
Logs(buffer) == [raised |-> FALSE, buffer |-> buffer]
ExitCodes == {0, 1, 137}

\* a plausible slip: the two messages of an empty buffer are exchanged
GetContainerOutputSwapped(logs, inspectOk, exitCode) ==
    IF ~logs.raised /\ Len(logs.buffer) > 0
    THEN ParseDockerLogs(logs.buffer)
    ELSE IF ~inspectOk
    THEN [stdout |-> "", stderr |-> "Error capturing output: inspect failed"]
    ELSE IF exitCode # 0
    THEN [stdout |-> "Program executed successfully (no output captured)",
          stderr |-> ""]
    ELSE [stdout |-> "",
          stderr |-> "Container exited with code " \o ToString(exitCode)]

GetContainerOutput(logs, inspectOk, exitCode) ==
    IF ~logs.raised /\ Len(logs.buffer) > 0
    THEN ParseDockerLogs(logs.buffer)
    ELSE IF ~inspectOk
    THEN [stdout |-> "", stderr |-> "Error capturing output: inspect failed"]
    ELSE IF exitCode = 0
    THEN [stdout |-> IF logs.raised THEN "Program executed successfully"
                     ELSE "Program executed successfully (no output captured)",
          stderr |-> ""]
    ELSE [stdout |-> "",
          stderr |-> (IF logs.raised THEN "Container failed with exit code "
                      ELSE "Container exited with code ")
                         \o ToString(exitCode)]

\* the stream as the engine writes it: an 8-byte header (selector, three
\* bytes of padding, the length of the payload, big-endian), then the payload
UInt32BE(n) ==
    <<(n \div 16777216) % 256, (n \div 65536) % 256, (n \div 256) % 256, n % 256>>

Frame(selector, payload) ==
    <<selector, 0, 0, 0>> \o UInt32BE(Len(payload)) \o payload

\* what the engine does in the executions of Spec: a program that prints
\* "hi" and a newline and writes "h" to its standard error, and a program
\* that prints nothing and exits with code 1
EngineOutcomes ==
    { <<Logs(Frame(1, <<104, 105, 10>>) \o Frame(2, <<104>>)), TRUE, 0>>,
      <<Logs(<<>>), TRUE, 1>> }

(***************************************************************************)
(* Initial state: the module is loaded, nothing has been submitted.        *)
(* redisClient is non-null exactly when REDIS_URL is set (lines 144-158).  *)
(***************************************************************************)
NoRequest == [op |-> "none"]
NoConfig == [none |-> TRUE]
NoCalls == [create |-> 0, stop |-> 0, remove |-> 0, put |-> 0, config |-> NoConfig]
NoCapture == [state |-> "none"]

Init ==
    /\ redisClient \in BOOLEAN
    /\ redis = [id \in Ids |-> NoRecord]
    /\ memoryStorage = [id \in Ids |-> NoRecord]
    /\ pc = [id \in Ids |-> "idle"]
    /\ execution = [id \in Ids |-> Unread]
    /\ container = [id \in Ids |-> "none"]
    /\ timer = [id \in Ids |-> "unset"]
    /\ result = [id \in Ids |-> NoResult]
    /\ http = NoRequest
    /\ calls = [id \in Ids |-> NoCalls]
    /\ capture = NoCapture

\* uuidv4(): an id no execution has yet
FreshId(id) == pc[id] = "idle" /\ \A other \in Ids : other < id => pc[other] # "idle"

(***************************************************************************)
(* POST /api/execute -> executeCode (lines 77-88, 243-296).                *)
(***************************************************************************)

\* lines 251-259: validation fails, the route answers 400
Reject(req) ==
    /\ ~SchemaValid(NormalizeTimeout(req))
    /\ http' = [op |-> "execute", body |-> req, code |-> 400]
    /\ UNCHANGED <<calls, capture, redisClient, redis, memoryStorage, pc, execution, container,
                   timer, result>>

\* an executeCode with admission control: a submission is taken only while
\* no other execution is under way
AcceptOneAtATime(req, id, ok) ==
    /\ SchemaValid(NormalizeTimeout(req))
    /\ FreshId(id)
    /\ \A other \in Ids : pc[other] \in {"idle", "done", "crashed"}
    /\ StoreExecution(id, NewExecution(id, SchemaValue(NormalizeTimeout(req))), ok)
    /\ pc' = [pc EXCEPT ![id] = "stored"]
    /\ http' = [op |-> "execute", body |-> req, code |-> 0, id |-> id]
    /\ UNCHANGED <<calls, capture, redisClient, execution, container, timer, result>>

\* lines 251-279: validation passes, the pending record is written
Accept(req, id, ok) ==
    /\ SchemaValid(NormalizeTimeout(req))
    /\ FreshId(id)
    /\ StoreExecution(id, NewExecution(id, SchemaValue(NormalizeTimeout(req))), ok)
    /\ pc' = [pc EXCEPT ![id] = "stored"]
    /\ http' = [op |-> "execute", body |-> req, code |-> 0, id |-> id]
    /\ UNCHANGED <<calls, capture, redisClient, execution, container, timer, result>>

\* a plausible slip: executeCode awaits runCode before it answers
ReturnAfterRun(id) ==
    /\ pc[id] = "done"
    /\ http' = [op |-> "execute", code |-> 202, id |-> id, status |-> "pending"]
    /\ UNCHANGED <<calls, capture, redisClient, redis, memoryStorage, pc, execution, container,
                   timer, result>>

\* lines 281-288 and 80: runCode is called and runs to its first await (the
\* read of the record is issued), then {executionId, status: pending} is sent
Return(id) ==
    /\ pc[id] = "stored"
    /\ pc' = [pc EXCEPT ![id] = "read"]
    /\ http' = [op |-> "execute", code |-> 202, id |-> id, status |-> "pending"]
    /\ UNCHANGED <<calls, capture, redisClient, redis, memoryStorage, execution, container,
                   timer, result>>

\* a plausible slip: a lookup keeps what it read in the Map
LookupCaches(id, ok) ==
    /\ IsRecord(GetExecution(id, ok))
    /\ memoryStorage' = [memoryStorage EXCEPT ![id] = GetExecution(id, ok)]
    /\ UNCHANGED <<redisClient, redis, pc, execution, container, timer, result,
                   http, calls, capture>>

(***************************************************************************)
(* GET /api/status/:id -> getExecutionStatus (lines 91-103, 298-308): a    *)
(* read.  It leaves no trace in the program; what it answers in a state is *)
(* GetExecutionStatus(id, ok) evaluated in that state, for the outcome ok  *)
(* of its call to the primary.                                             *)
(***************************************************************************)
Lookup(id, ok) ==
    /\ GetExecutionStatus(id, ok) \in {NoRecord, ToJSON(GetExecution(id, ok))}
    /\ UNCHANGED vars

(***************************************************************************)
(* runCode (lines 341-442), one action per await.                          *)
(***************************************************************************)

\* a plausible slip: the record is marked failed in one turn of the event
\* loop and the container is stopped in a later one
CatchStopLater(id, message, hasContainer) ==
    IF execution[id].ref = "null"
    THEN /\ pc' = [pc EXCEPT ![id] = "crashed"]
         /\ UNCHANGED <<execution, memoryStorage, calls>>
    ELSE /\ Assign(id, Failed(Local(id), message))
         /\ pc' = [pc EXCEPT ![id] = IF hasContainer THEN "stop" ELSE "store"]
         /\ UNCHANGED calls

\* lines 411-417: the catch block up to its first await.  With no record read
\* (execution is null or undefined) the assignment of line 413 raises a
\* TypeError inside the catch block: runCode rejects, nothing after it runs.
\* Otherwise, with a container, container.stop is called (line 420).
Catch(id, message, hasContainer) ==
    IF execution[id].ref = "null"
    THEN /\ pc' = [pc EXCEPT ![id] = "crashed"]
         /\ UNCHANGED <<execution, memoryStorage, calls>>
    ELSE /\ Assign(id, Failed(Local(id), message))
         /\ pc' = [pc EXCEPT ![id] = IF hasContainer THEN "stop" ELSE "store"]
         /\ calls' = [calls EXCEPT ![id].stop =
                         IF hasContainer THEN @ + 1 ELSE @]

\* the record executeCode or runCode last wrote for id, wherever it went
Written(id) == IF IsRecord(redis[id]) THEN redis[id] ELSE memoryStorage[id]

\* lines 174-212: LANGUAGE_CONFIG[language]
Image(language) ==
    CASE language = "javascript" -> "node:18-alpine"
      [] language = "python" -> "python:3.11-alpine"
      [] language = "java" -> "openjdk:17-alpine"
      [] OTHER -> "gcc:latest"

Extension(language) ==
    CASE language = "javascript" -> ".js"
      [] language = "python" -> ".py"
      [] OTHER -> "." \o language

RunCommand(language, filename) ==
    CASE language = "javascript" -> "node " \o filename
      [] language = "python" -> "python " \o filename
      [] language = "java" -> "javac " \o filename \o " && java main"
      [] language = "cpp" -> "g++ -o main " \o filename \o " && ./main"
      [] OTHER -> "gcc -o main " \o filename \o " && ./main"

\* line 357: code.replace(/'/g, ...) inside single quotes; the code of the
\* model is an opaque text, the quoting is kept as a tag
ShellQuoted(code) == <<"'", code, "'">>

\* the arguments executeCode passes to runCode (line 283): the validated
\* value, which is also what the pending record was made from (the JSON
\* text of the primary leaves an undefined input out)
RunCodeArgs(id) ==
    LET rec == Written(id) IN
    [language |-> rec.language, code |-> rec.code,
     input |-> IF Has(rec, "input") THEN rec.input ELSE Undefined,
     timeout |-> rec.timeout]

\* a runCode that hands the input to the program, on the command line
ContainerConfigWithInput(args) ==
    [Image |-> Image(args.language),
     Cmd |-> <<"sh", "-c",
               [echo |-> ShellQuoted(args.code),
                to |-> "main" \o Extension(args.language),
                run |-> RunCommand(args.language, "main" \o Extension(args.language)),
                stdin |-> args.input]>>,
     WorkingDir |-> "/app",
     HostConfig |-> [Memory |-> 128 * 1024 * 1024, CpuQuota |-> 50000,
                     NetworkMode |-> "none", ReadonlyRootfs |-> TRUE,
                     Tmpfs |-> "rw,size=10m"],
     AttachStdout |-> TRUE,
     AttachStderr |-> TRUE]

\* lines 355-370: the options of docker.createContainer
ContainerConfig(args) ==
    [Image |-> Image(args.language),
     Cmd |-> <<"sh", "-c",
               [echo |-> ShellQuoted(args.code),
                to |-> "main" \o Extension(args.language),
                run |-> RunCommand(args.language, "main" \o Extension(args.language))]>>,
     WorkingDir |-> "/app",
     HostConfig |-> [Memory |-> 128 * 1024 * 1024, CpuQuota |-> 50000,
                     NetworkMode |-> "none", ReadonlyRootfs |-> TRUE,
                     Tmpfs |-> "rw,size=10m"],
     AttachStdout |-> TRUE,
     AttachStderr |-> TRUE]

\* line 342 resolves; lines 343-355: createContainer is called
RunRead(id, ok) ==
    /\ pc[id] = "read"
    /\ execution' = [execution EXCEPT ![id] = ReadExecution(id, ok)]
    /\ calls' = [calls EXCEPT ![id].create = @ + 1,
                              ![id].config = ContainerConfig(RunCodeArgs(id))]
    /\ pc' = [pc EXCEPT ![id] = "create"]
    /\ UNCHANGED <<capture, redisClient, redis, memoryStorage, container, timer, result, http>>

\* a runCode that arms the timer before container.start is called
CreateOkArmsTimer(id) ==
    /\ pc[id] = "create"
    /\ container' = [container EXCEPT ![id] = "created"]
    /\ timer' = [timer EXCEPT ![id] = "armed"]
    /\ pc' = [pc EXCEPT ![id] = "start"]
    /\ UNCHANGED <<calls, capture, redisClient, redis, memoryStorage, execution, result, http>>

\* line 355 resolves; line 375: container.start is called
CreateOk(id) ==
    /\ pc[id] = "create"
    /\ container' = [container EXCEPT ![id] = "created"]
    /\ pc' = [pc EXCEPT ![id] = "start"]
    /\ UNCHANGED <<calls, capture, redisClient, redis, memoryStorage, execution, timer, result, http>>

\* line 355 rejects (engine unreachable, image missing)
CreateFails(id) ==
    /\ pc[id] = "create"
    /\ result' = [result EXCEPT ![id] =
                    [kind |-> "error", exited |-> FALSE, message |-> "create failed"]]
    /\ Catch(id, "create failed", FALSE)
    /\ UNCHANGED <<capture, redisClient, redis, container, timer, http>>

\* line 375 resolves; lines 380-393: the timer is armed, container.wait is
\* called, the race begins
StartOk(id) ==
    /\ pc[id] = "start"
    /\ container' = [container EXCEPT ![id] = "running"]
    /\ timer' = [timer EXCEPT ![id] = "armed"]
    /\ pc' = [pc EXCEPT ![id] = "race"]
    /\ UNCHANGED <<calls, capture, redisClient, redis, memoryStorage, execution, result, http>>

\* line 375 rejects
StartFails(id) ==
    /\ pc[id] = "start"
    /\ result' = [result EXCEPT ![id] =
                    [kind |-> "error", exited |-> FALSE, message |-> "start failed"]]
    /\ Catch(id, "start failed", TRUE)
    /\ UNCHANGED <<capture, redisClient, redis, container, timer, http>>

\* the container exits, line 386 resolves; line 387: getContainerOutput is
\* called, which calls container.logs
WaitOk(id) ==
    /\ pc[id] = "race"
    /\ container' = [container EXCEPT ![id] = "exited"]
    /\ pc' = [pc EXCEPT ![id] = "logs"]
    /\ UNCHANGED <<calls, capture, redisClient, redis, memoryStorage, execution, timer, result, http>>

\* line 386 rejects: the race is lost to an error of the engine
WaitFails(id) ==
    /\ pc[id] = "race"
    /\ result' = [result EXCEPT ![id] =
                    [kind |-> "error", exited |-> FALSE, message |-> "wait failed"]]
    /\ Catch(id, "wait failed", TRUE)
    /\ UNCHANGED <<capture, redisClient, redis, container, timer, http>>

\* getContainerOutput returns, the race is won by the exit branch; lines
\* 395-403: the timer is cleared, container.remove is called
CollectOutput(id, logs, inspectOk, exitCode) ==
    /\ pc[id] = "logs"
    /\ result' = [result EXCEPT ![id] =
                    [kind |-> "output", exited |-> TRUE, exitCode |-> exitCode,
                     out |-> GetContainerOutput(logs, inspectOk, exitCode)]]
    /\ timer' = [timer EXCEPT ![id] = "cleared"]
    /\ calls' = [calls EXCEPT ![id].remove = @ + 1]
    /\ pc' = [pc EXCEPT ![id] = "remove"]
    /\ UNCHANGED <<capture, redisClient, redis, memoryStorage, execution, container, http>>

\* line 381: the timer fires while the race is undecided; the race rejects
\* with 'Execution timeout'.  `exited` keeps whether container.wait had
\* resolved by then, `branch` where executionPromise (lines 385-388), which
\* nothing cancels, goes on from.
Timeout(id) ==
    /\ pc[id] \in {"race", "logs"}
    /\ timer[id] = "armed"
    /\ timer' = [timer EXCEPT ![id] = "fired"]
    /\ result' = [result EXCEPT ![id] =
                    [kind |-> "timeout", exited |-> (pc[id] = "logs"),
                     branch |-> IF pc[id] = "logs" THEN "capturing" ELSE "waiting"]]
    /\ Catch(id, "Execution timeout", TRUE)
    /\ UNCHANGED <<capture, redisClient, redis, container, http>>

\* the timer fires after the race was decided by an error: the rejection of
\* timeoutPromise has no reader left
LateTimer(id) ==
    /\ pc[id] \notin {"race", "logs"}
    /\ timer[id] = "armed"
    /\ timer' = [timer EXCEPT ![id] = "fired"]
    /\ UNCHANGED <<calls, capture, redisClient, redis, memoryStorage, pc, execution, container,
                   result, http>>

\* line 386 after the timeout has won: container.wait settles once the
\* container has exited (the stop of line 420 makes it exit) or rejects.
\* Promise.race has subscribed to executionPromise, so its rejection is a
\* handled one.
LateExit(id, ok) ==
    /\ pc[id] \notin {"killed", "exit"}
    /\ result[id].kind = "timeout"
    /\ result[id].branch = "waiting"
    /\ ok => container[id] \in {"exited", "removed"}
    /\ result' = [result EXCEPT ![id].branch = IF ok THEN "capturing" ELSE "settled"]
    /\ UNCHANGED <<calls, capture, redisClient, redis, memoryStorage, pc, execution,
                   container, timer, http>>

\* a runCode in which the exit branch writes what it collected into the
\* record even after the timeout has won
LateOutputApplied(id, logs, inspectOk, exitCode) ==
    /\ pc[id] \notin {"killed", "exit"}
    /\ result[id].kind = "timeout"
    /\ result[id].branch = "capturing"
    /\ result' = [result EXCEPT ![id].branch = "discarded"]
    /\ IF execution[id].ref = "null"
       THEN UNCHANGED <<execution, memoryStorage>>
       ELSE Assign(id, Completed(Local(id), GetContainerOutput(logs, inspectOk, exitCode)))
    /\ UNCHANGED <<calls, capture, redisClient, redis, pc, container, timer, http>>

\* lines 387-388 after the timeout has won: getContainerOutput returns and
\* executionPromise resolves with its value; the race was settled by the
\* timer and `result` (line 392) was never assigned, so nothing reads it
LateOutput(id, logs, inspectOk, exitCode) ==
    /\ pc[id] \notin {"killed", "exit"}
    /\ result[id].kind = "timeout"
    /\ result[id].branch = "capturing"
    /\ result' = [result EXCEPT ![id].branch = "discarded"]
    /\ UNCHANGED <<calls, capture, redisClient, redis, memoryStorage, pc, execution,
                   container, timer, http>>

\* a runCode that takes a nonzero exit code of the program for a failure
RemoveOkChecksExitCode(id) ==
    /\ pc[id] = "remove"
    /\ container' = [container EXCEPT ![id] = "removed"]
    /\ IF execution[id].ref = "null"
       THEN /\ pc' = [pc EXCEPT ![id] = "crashed"]
            /\ UNCHANGED <<execution, memoryStorage>>
       ELSE /\ IF result[id].exitCode = 0
               THEN Assign(id, Completed(Local(id), result[id].out))
               ELSE Assign(id, Failed(Local(id), result[id].out.stderr))
            /\ pc' = [pc EXCEPT ![id] = "store"]
    /\ UNCHANGED <<calls, capture, redisClient, redis, timer, result, http>>

\* line 403 resolves; lines 406-409 and 432: the record is marked completed
\* and storeExecution is called.  With no record read, line 406 raises a
\* TypeError, which the catch block meets with the TypeError of line 413.
RemoveOk(id) ==
    /\ pc[id] = "remove"
    /\ container' = [container EXCEPT ![id] = "removed"]
    /\ IF execution[id].ref = "null"
       THEN /\ pc' = [pc EXCEPT ![id] = "crashed"]
            /\ UNCHANGED <<execution, memoryStorage>>
       ELSE /\ Assign(id, Completed(Local(id), result[id].out))
            /\ pc' = [pc EXCEPT ![id] = "store"]
    /\ UNCHANGED <<calls, capture, redisClient, redis, timer, result, http>>

\* line 403 rejects: the catch block runs with the removal's error
RemoveFails(id) ==
    /\ pc[id] = "remove"
    /\ Catch(id, "remove failed", TRUE)
    /\ UNCHANGED <<capture, redisClient, redis, container, timer, result, http>>

\* line 420 resolves or rejects (the rejection is logged); line 425:
\* container.remove is called
StopDone(id, ok) ==
    /\ pc[id] = "stop"
    /\ container' = [container EXCEPT ![id] =
                       IF ok /\ container[id] \in {"created", "running"}
                       THEN "exited" ELSE container[id]]
    /\ calls' = [calls EXCEPT ![id].remove = @ + 1]
    /\ pc' = [pc EXCEPT ![id] = "cleanup"]
    /\ UNCHANGED <<capture, redisClient, redis, memoryStorage, execution, timer, result, http>>

\* line 425 resolves or rejects (the rejection is logged); line 432:
\* storeExecution is called
CleanupDone(id, ok) ==
    /\ pc[id] = "cleanup"
    /\ container' = [container EXCEPT ![id] = IF ok THEN "removed" ELSE container[id]]
    /\ pc' = [pc EXCEPT ![id] = "store"]
    /\ UNCHANGED <<calls, capture, redisClient, redis, memoryStorage, execution, timer, result, http>>

\* the put of line 432 is made and resolves; lines 433-441: a timer still
\* armed is cleared
StoreDone(id, ok) ==
    /\ pc[id] = "store"
    /\ StoreExecution(id, Local(id), ok)
    /\ calls' = [calls EXCEPT ![id].put = @ + 1]
    /\ timer' = [timer EXCEPT ![id] = IF timer[id] = "armed" THEN "cleared" ELSE timer[id]]
    /\ pc' = [pc EXCEPT ![id] = "done"]
    /\ UNCHANGED <<capture, redisClient, execution, container, result, http>>

(***************************************************************************)
(* The environment of the store.                                           *)
(***************************************************************************)

\* lines 151-154 and 237-240: the client emits 'error', or connect() fails:
\* redisClient is set to null for the rest of the process
RedisError ==
    /\ redisClient
    /\ redisClient' = FALSE
    /\ UNCHANGED <<calls, capture, redis, memoryStorage, pc, execution, container,
                   timer, result, http>>

\* line 315: the primary drops a key 3600 s after its last setEx.  runCode
\* reads the record in the segment that follows the first setEx, so the key
\* cannot expire before that read.
Expire(id) ==
    /\ IsRecord(redis[id])
    /\ pc[id] \notin {"stored", "read"}
    /\ redis' = [redis EXCEPT ![id] = Expired]
    /\ UNCHANGED <<calls, capture, redisClient, memoryStorage, pc, execution, container, timer,
                   result, http>>

\* line 283: runCode is called without await and without a rejection
\* handler, so the TypeError that leaves it is an unhandled rejection.  The
\* documented runtime (Node.js 18+) ends the process on one: the records of
\* memoryStorage and the pending timers are gone with it, every task that
\* was under way is cut short, and no request is served any more.  The
\* primary and the containers live outside the process and stay as they are.
UnhandledRejection(id) ==
    /\ pc[id] = "crashed"
    /\ \A other \in Ids : pc[other] # "exit"
    /\ pc' = [i \in Ids |-> IF i = id THEN "exit"
                            ELSE IF pc[i] \in {"done", "crashed"} THEN pc[i]
                            ELSE "killed"]
    /\ memoryStorage' = [i \in Ids |-> NoRecord]
    /\ timer' = [i \in Ids |-> IF timer[i] = "armed" THEN "gone" ELSE timer[i]]
    /\ UNCHANGED <<calls, capture, redisClient, redis, execution, container,
                   result, http>>

(***************************************************************************)
(* Requests of the model.  Spec runs executions of one valid request;      *)
(* ApiSpec (below) puts every shape of request to the validator.           *)
(***************************************************************************)
Requests == { [language |-> "python", code |-> 11, timeout |-> 5] }

RunStep(id) ==
    \/ \E ok \in BOOLEAN : RunRead(id, ok)
    \/ CreateOk(id)
    \/ CreateFails(id)
    \/ StartOk(id)
    \/ StartFails(id)
    \/ WaitOk(id)
    \/ WaitFails(id)
    \/ \E o \in EngineOutcomes : CollectOutput(id, o[1], o[2], o[3])
    \/ Timeout(id)
    \/ LateTimer(id)
    \/ \E ok \in BOOLEAN : LateExit(id, ok)
    \/ \E o \in EngineOutcomes : LateOutput(id, o[1], o[2], o[3])
    \/ RemoveOk(id)
    \/ RemoveFails(id)
    \/ \E ok \in BOOLEAN : StopDone(id, ok)
    \/ \E ok \in BOOLEAN : CleanupDone(id, ok)
    \/ \E ok \in BOOLEAN : StoreDone(id, ok)

Next ==
    \/ \E req \in Requests, id \in Ids, ok \in BOOLEAN : Accept(req, id, ok)
    \/ \E id \in Ids : Return(id)
    \/ \E id \in Ids, ok \in BOOLEAN : Lookup(id, ok)
    \/ \E id \in Ids : RunStep(id)
    \/ RedisError
    \/ \E id \in Ids : Expire(id)
    \/ \E id \in Ids : UnhandledRejection(id)

Spec == Init /\ [][Next]_vars
(***************************************************************************)
(* ApiSpec: the validator of executeCode on every shape of request.  A     *)
(* request is a valid one with at most one key changed or left out, or the *)
(* timeout of one of the cases the unit heuristic is about.                *)
(***************************************************************************)
BaseRequest == [language |-> "python", code |-> 11, input |-> 3, timeout |-> 5]

Without(req, key) == [k \in DOMAIN req \ {key} |-> req[k]]

ApiLanguages == {"c", "ruby", "Python"}
ApiCodeLengths == {0, 50000, 50001}
ApiInputLengths == {0, 10000, 10001}
ApiTimeouts == {-5, 0, 1, 999, 1000, 1001, 5000, 1000001}

ApiRequests ==
    {BaseRequest}
    \cup {Without(BaseRequest, k) : k \in DOMAIN BaseRequest}
    \cup {[BaseRequest EXCEPT !.language = l] : l \in ApiLanguages}
    \cup {[BaseRequest EXCEPT !.code = n] : n \in ApiCodeLengths}
    \cup {[BaseRequest EXCEPT !.input = n] : n \in ApiInputLengths}
    \cup {[BaseRequest EXCEPT !.timeout = t] : t \in ApiTimeouts}
    \cup {[language |-> "ruby", code |-> 50001, input |-> 10001, timeout |-> 0]}

NextApi ==
    \/ \E req \in ApiRequests : Reject(req)
    \/ \E req \in ApiRequests, id \in Ids, ok \in BOOLEAN : Accept(req, id, ok)

ApiSpec == Init /\ [][NextApi]_vars
(***************************************************************************)
(* CaptureSpec: getContainerOutput, and parseDockerLogs under it, on every *)
(* outcome of container.logs.  A buffer is up to MaxFrames well-formed     *)
(* frames followed by a tail that holds no complete frame.                 *)
(***************************************************************************)
MaxFrames == 2

Selectors == {1, 2, 3}

\* "", "hi", " h\n", the two bytes of U+00E9 one at a time, "\n"
Payloads == {<<>>, <<104, 105>>, <<32, 104, 10>>, <<195>>, <<169>>, <<10>>}

\* nothing; text shorter than a header; a header whose payload is cut short;
\* a header that declares 256 bytes and has none
Tails == {<<>>, <<32, 104, 105>>, <<1, 0, 0, 0, 0, 0, 0, 9, 104>>,
          <<2, 0, 0, 0, 0, 0, 1, 0>>}

FrameLists == UNION {[1..n -> Selectors \X Payloads] : n \in 0..MaxFrames}

\* the buffer container.logs resolves with
BufferOf(frames, tail) ==
    Join([i \in 1..Len(frames) |-> Frame(frames[i][1], frames[i][2])]) \o tail

NoOutput == [stdout |-> Null, stderr |-> Null]

CaptureInputs ==
    {[state |-> "called", raised |-> FALSE, frames |-> fs, tail |-> t,
      inspectOk |-> TRUE, exitCode |-> 0, out |-> NoOutput] :
        fs \in FrameLists, t \in Tails}
    \cup {[state |-> "called", raised |-> r, frames |-> <<>>, tail |-> <<>>,
           inspectOk |-> i, exitCode |-> c, out |-> NoOutput] :
             r \in BOOLEAN, i \in BOOLEAN, c \in ExitCodes}

CaptureInit ==
    /\ redisClient \in BOOLEAN
    /\ redis = [id \in Ids |-> NoRecord]
    /\ memoryStorage = [id \in Ids |-> NoRecord]
    /\ pc = [id \in Ids |-> "idle"]
    /\ execution = [id \in Ids |-> Unread]
    /\ container = [id \in Ids |-> "none"]
    /\ timer = [id \in Ids |-> "unset"]
    /\ result = [id \in Ids |-> NoResult]
    /\ http = NoRequest
    /\ calls = [id \in Ids |-> NoCalls]
    /\ capture \in CaptureInputs

CapturedBuffer == BufferOf(capture.frames, capture.tail)

\* getContainerOutput is called and returns
Capture ==
    /\ capture.state = "called"
    /\ capture' = [capture EXCEPT
                     !.state = "returned",
                     !.out = GetContainerOutput(
                                 IF capture.raised THEN LogsRaise
                                 ELSE Logs(CapturedBuffer),
                                 capture.inspectOk, capture.exitCode)]
    /\ UNCHANGED <<redisClient, redis, memoryStorage, pc, execution, container,
                   timer, result, http, calls>>

CaptureSpec == CaptureInit /\ [][Capture]_vars
(***************************************************************************)
(* What the claims speak of.                                               *)
(***************************************************************************)
Ended(id) == pc[id] \in {"done", "crashed"}
Returned(id) == pc[id] \notin {"idle", "stored"}
Stores(id) == {redis[id], memoryStorage[id]}
\* the step is executeCode deciding on the request body b
Decides(b) == http' # http /\ "body" \in DOMAIN http' /\ http'.body = b
StoreAndContainersUnchanged == UNCHANGED <<redis, memoryStorage, container, pc>>

(***************************************************************************)
(* C1.  Every accepted request ends with a record whose status is          *)
(* completed or failed, whichever backend serves each call of the store.   *)
(* As a final result: once the orchestration task of an execution has      *)
(* ended, one of the backends holds a terminal record of it (or its record *)
(* is gone from both).                                                     *)
(***************************************************************************)
C1_EndedIsTerminal ==
    \A id \in Ids :
        Ended(id) =>
            \/ \E rec \in Stores(id) : Terminal(rec)
            \/ \A rec \in Stores(id) : Absent(rec)

(***************************************************************************)
(* C2.  An execution whose timer fires while its container has not exited  *)
(* ends with status failed and never with status completed: once its task  *)
(* has ended, no backend holds a completed record of it and one holds a    *)
(* failed record (or its record is gone from both).                        *)
(***************************************************************************)
TimedOutRunning(id) == result[id].kind = "timeout" /\ ~result[id].exited

C2_TimeoutEndsFailed ==
    \A id \in Ids :
        (Ended(id) /\ TimedOutRunning(id)) =>
            /\ \A rec \in Stores(id) : IsRecord(rec) => rec.status # "completed"
            /\ \/ \E rec \in Stores(id) : IsRecord(rec) /\ rec.status = "failed"
               \/ \A rec \in Stores(id) : Absent(rec)

(***************************************************************************)
(* C3.  A terminal status is final: when a status lookup returns a record  *)
(* that is completed or failed, a lookup that follows it and returns a     *)
(* record returns the same status, output, error and endTime.              *)
(***************************************************************************)
SameOutcome(r1, r2) ==
    /\ r1.status = r2.status /\ r1.output = r2.output
    /\ r1.error = r2.error /\ r1.endTime = r2.endTime

C3_TerminalIsFinal ==
    \A id \in Ids : \A ok1, ok2 \in BOOLEAN :
        LET first == GetExecutionStatus(id, ok1)
            later == GetExecutionStatus(id, ok2) IN
        (Terminal(first) /\ IsRecord(later)) => SameOutcome(first, later)

(***************************************************************************)
(* C4.  In every record a status lookup can return, endTime is non-null    *)
(* exactly when the status is completed or failed; a pending record has    *)
(* endTime = null.                                                         *)
(***************************************************************************)
C4_EndTimeIffTerminal ==
    \A id \in Ids : \A ok \in BOOLEAN :
        LET rec == GetExecutionStatus(id, ok) IN
        IsRecord(rec) =>
            /\ (rec.endTime # Null) <=> (rec.status \in {"completed", "failed"})
            /\ rec.status = "pending" => rec.endTime = Null

\* a lookup returns a failed record, with its endTime, while the task of the
\* execution is still stopping its container; another returns a pending one
C4_Witness ==
    /\ \E id \in Ids : \E ok \in BOOLEAN :
          /\ pc[id] = "stop"
          /\ IsRecord(GetExecutionStatus(id, ok))
          /\ GetExecutionStatus(id, ok).status = "failed"
          /\ GetExecutionStatus(id, ok).endTime = "t_end"
    /\ \E id \in Ids : \E ok \in BOOLEAN :
          /\ IsRecord(GetExecutionStatus(id, ok))
          /\ GetExecutionStatus(id, ok).status = "pending"
          /\ GetExecutionStatus(id, ok).endTime = Null

C6_ReturnedIsFound ==
    \A id \in Ids : \A ok \in BOOLEAN :
        (Returned(id) /\ redis[id] # Expired) =>
            IsRecord(GetExecutionStatus(id, ok))
(***************************************************************************)
(* C7.  A request whose language is not one of javascript, python, java,   *)
(* cpp, c is rejected with a validation error before any store write and   *)
(* before any container is created; no record of such a request is ever    *)
(* observable.                                                             *)
(***************************************************************************)
SupportedLanguages == {"javascript", "python", "java", "cpp", "c"}
UnsupportedLanguage(b) == Has(b, "language") /\ b.language \notin SupportedLanguages

OverLimit(b) ==
    \/ (Has(b, "code") /\ b.code > 50000)
    \/ (Has(b, "input") /\ b.input > 10000)
    \/ ~Has(b, "language")

WithinLimits(b) ==
    /\ Has(b, "language") /\ b.language \in SupportedLanguages
    /\ Has(b, "code") /\ b.code <= 50000
    /\ (Has(b, "input") => b.input <= 10000)

C10_GetAfterFailedPut ==
    \A id \in Ids : \A ok \in BOOLEAN :
        (redisClient /\ IsRecord(memoryStorage[id])) =>
            GetExecution(id, ok) = memoryStorage[id]

(***************************************************************************)
(* C11.  A timed-out execution is recorded as failed, never with a status  *)
(* timeout, with the error 'Execution timeout' and a null output: once the *)
(* task of an execution whose timer decided the race has ended, no backend *)
(* holds a record of it with status timeout and one holds a failed record  *)
(* with that error and a null output (or its record is gone from both).    *)
(***************************************************************************)
TimedOut(id) == result[id].kind = "timeout"

TimeoutRecord(rec) ==
    /\ IsRecord(rec) /\ rec.status = "failed"
    /\ rec.error = "Execution timeout" /\ rec.output = Null

C11_TimeoutRecord ==
    \A id \in Ids :
        (Ended(id) /\ TimedOut(id)) =>
            /\ \A rec \in Stores(id) : IsRecord(rec) => rec.status # "timeout"
            /\ \/ \E rec \in Stores(id) : TimeoutRecord(rec)
               \/ \A rec \in Stores(id) : Absent(rec)

(***************************************************************************)
(* C12.  When the container exits before the timeout and its output is     *)
(* collected, the execution is recorded as completed with the collected    *)
(* stdout as output and the collected stderr as error: once the task of    *)
(* such an execution has ended, a backend holds that record (or its record *)
(* is gone from both).                                                     *)
(***************************************************************************)
Collected(id) == result[id].kind = "output"

CompletedRecord(rec, out) ==
    /\ IsRecord(rec) /\ rec.status = "completed"
    /\ rec.output = out.stdout /\ rec.error = out.stderr

C12_ExitIsCompleted ==
    \A id \in Ids :
        (Ended(id) /\ Collected(id)) =>
            \/ \E rec \in Stores(id) : CompletedRecord(rec, result[id].out)
            \/ \A rec \in Stores(id) : Absent(rec)

(***************************************************************************)
(* C13.  The status of every record a backend holds or a status lookup     *)
(* returns is pending, completed or failed; running and timeout are never  *)
(* stored or returned.                                                     *)
(***************************************************************************)
PublicStatuses == {"pending", "completed", "failed"}

Snapshots(id) == Stores(id) \cup {GetExecutionStatus(id, ok) : ok \in BOOLEAN}

\* a step changes output or error of a stored record only as it turns a
\* pending record into a terminal one
AssignedAtTerminalTransition(old, new) ==
    (IsRecord(old) /\ IsRecord(new)
        /\ (new.output # old.output \/ new.error # old.error)) =>
            (Pending(old) /\ Terminal(new))

AssignedOnce ==
    [][\A id \in Ids :
          /\ AssignedAtTerminalTransition(redis[id], redis'[id])
          /\ AssignedAtTerminalTransition(memoryStorage[id], memoryStorage'[id])
      ]_vars

C14_Original ==
    /\ [](\A id \in Ids : \A rec \in Snapshots(id) :
            /\ Pending(rec) => (rec.output = Null /\ rec.error = Null)
            /\ Terminal(rec) => (rec.output # Null /\ rec.error # Null))
    /\ AssignedOnce

\* the claim as amended: a failed record keeps a null output
C14_OutputAndError ==
    /\ [](\A id \in Ids : \A rec \in Snapshots(id) :
            /\ Pending(rec) => (rec.output = Null /\ rec.error = Null)
            /\ (IsRecord(rec) /\ rec.status = "completed") =>
                  (rec.output # Null /\ rec.error # Null)
            /\ (IsRecord(rec) /\ rec.status = "failed") =>
                  (rec.output = Null /\ rec.error # Null))
    /\ AssignedOnce

\* lookups return a completed record with its output and error, and a failed
\* record with its error and no output
C14_Witness ==
    /\ \E id \in Ids : \E ok \in BOOLEAN :
          LET rec == GetExecutionStatus(id, ok) IN
          /\ IsRecord(rec) /\ rec.status = "completed"
          /\ rec.output = "hi" /\ rec.error = "h"
    /\ \E id \in Ids : \E ok \in BOOLEAN :
          LET rec == GetExecutionStatus(id, ok) IN
          /\ IsRecord(rec) /\ rec.status = "failed"
          /\ rec.output = Null /\ rec.error # Null

(***************************************************************************)
(* C15.  A status lookup for an id with no stored record, never submitted  *)
(* or expired, is answered 404 'Execution not found'; a lookup that is     *)
(* answered with a record is answered with the record of the id it asked   *)
(* for.                                                                    *)
(***************************************************************************)
C15_AbsentIsNotFound ==
    \A id \in Ids : \A ok \in BOOLEAN :
        /\ (\A rec \in Stores(id) : Absent(rec)) =>
              StatusRoute(id, ok) = [code |-> 404, error |-> "Execution not found"]
        /\ StatusRoute(id, ok).code = 200 => StatusRoute(id, ok).body.id = id

\* the record of one id has expired while another id holds a record: the
\* lookups of the first are answered 404
C15_Witness ==
    \E id, other \in Ids :
        /\ id # other
        /\ redis[id] = Expired /\ Absent(memoryStorage[id])
        /\ \E rec \in Stores(other) : IsRecord(rec)
        /\ \A ok \in BOOLEAN : StatusRoute(id, ok).code = 404

(***************************************************************************)
(* What the claims about getContainerOutput and parseDockerLogs speak of.  *)
(***************************************************************************)
Returns == capture.state = "returned"
FramesIn == capture.frames
SelectorOf(frame) == frame[1]
PayloadOf(frame) == frame[2]

\* the payload bytes of the frames of one selector, in order, as one buffer
PayloadBytes(frames, selector) ==
    LET own == SelectSeq(frames, LAMBDA f : SelectorOf(f) = selector)
    IN  Join([i \in 1..Len(own) |-> PayloadOf(own[i])])

\* the payloads, each as text, of the frames that do or do not carry
\* selector 2, joined in order
PayloadTexts(frames, isStderr) ==
    LET own == SelectSeq(frames, LAMBDA f : (SelectorOf(f) = 2) = isStderr)
    IN  Join([i \in 1..Len(own) |-> ToStringUtf8(PayloadOf(own[i]))])

FramedOutput(frames) ==
    [stdout |-> Text(Trim(PayloadTexts(frames, FALSE))),
     stderr |-> Text(Trim(PayloadTexts(frames, TRUE)))]

(***************************************************************************)
(* C16.  Round trip of parseDockerLogs: for a buffer of N well-formed      *)
(* frames with selectors 1 and 2 and nothing after them, stdout is the     *)
(* payload bytes of the selector-1 frames, concatenated in order, as       *)
(* trimmed text, and stderr the same of the selector-2 frames.             *)
(***************************************************************************)
C16_RoundTrip ==
    (/\ Returns /\ ~capture.raised /\ capture.tail = <<>>
     /\ Len(FramesIn) >= 1
     /\ \A i \in 1..Len(FramesIn) : SelectorOf(FramesIn[i]) \in {1, 2}) =>
        capture.out =
            [stdout |-> Text(Trim(ToStringUtf8(PayloadBytes(FramesIn, 1)))),
             stderr |-> Text(Trim(ToStringUtf8(PayloadBytes(FramesIn, 2))))]

(***************************************************************************)
(* C17.  In parseDockerLogs a frame whose selector is neither 1 nor 2      *)
(* gives its payload to stdout; parsing stops at the first frame whose     *)
(* header or payload would overrun the buffer: the frames parsed are       *)
(* exactly the complete frames before it, and the bytes from it on change  *)
(* nothing of what these frames give.                                      *)
(***************************************************************************)
ExpectedChunk(frame) ==
    [stream |-> IF SelectorOf(frame) = 2 THEN "stderr" ELSE "stdout",
     chunk  |-> ToStringUtf8(PayloadOf(frame))]

C17_OtherSelectorsAndOverrun ==
    ~capture.raised =>
        /\ ParseFrames(CapturedBuffer, 0) =
              [i \in 1..Len(FramesIn) |-> ExpectedChunk(FramesIn[i])]
        /\ Len(FramesIn) >= 1 =>
              /\ ParseDockerLogs(CapturedBuffer) =
                    ParseDockerLogs(BufferOf(FramesIn, <<>>))
              /\ Returns => capture.out = FramedOutput(FramesIn)

\* a frame of selector 3 that holds "hi", then a header whose payload is cut
\* short: stdout is "hi"
C17_Witness ==
    /\ Returns /\ ~capture.raised
    /\ FramesIn = << <<3, <<104, 105>>>> >>
    /\ capture.tail = <<1, 0, 0, 0, 0, 0, 0, 9, 104>>
    /\ capture.out = [stdout |-> "hi", stderr |-> ""]

C19_PlainTextFallback ==
    (~capture.raised /\ CapturedBuffer # <<>>) =>
        IF Len(FramesIn) = 0
        THEN ParseDockerLogs(CapturedBuffer) =
                [stdout |-> Text(Trim(ToStringUtf8(CapturedBuffer))),
                 stderr |-> ""]
        ELSE ParseDockerLogs(CapturedBuffer) = FramedOutput(FramesIn)

\* a buffer that begins with a space and is shorter than a header is returned
\* trimmed, and a buffer of one frame with an empty payload gives an empty
\* stdout
C19_Witness ==
    /\ Returns /\ ~capture.raised
    /\ \/ /\ FramesIn = <<>> /\ capture.tail = <<32, 104, 105>>
          /\ capture.out = [stdout |-> "hi", stderr |-> ""]
       \/ /\ FramesIn = << <<1, <<>>>> >> /\ capture.tail = <<>>
          /\ capture.out = [stdout |-> "", stderr |-> ""]

(***************************************************************************)
(* C20.  For every execution that created a container, a stop of the       *)
(* container and then a forced removal are attempted before its task ends, *)
(* on every outcome.                                                       *)
(***************************************************************************)
C20_CleanupAttempted ==
    \A id \in Ids :
        (Ended(id) /\ container[id] # "none") =>
            (calls[id].stop >= 1 /\ calls[id].remove >= 1)

(***************************************************************************)
(* C21.  The removal of the container of an execution is requested exactly *)
(* once, whatever the outcome and whether or not the removal fails: never  *)
(* more than once, and once by the time the task of an execution that      *)
(* created a container has ended.                                          *)
(***************************************************************************)
C21_RemovedOnce ==
    \A id \in Ids :
        /\ calls[id].remove <= 1
        /\ (Ended(id) /\ container[id] # "none") => calls[id].remove = 1

(***************************************************************************)
(* C22.  A failure of the stop or of the removal of the container never    *)
(* changes the recorded outcome: the terminal record of an execution whose *)
(* output was collected is completed, and no record holds the error of a   *)
(* cleanup call in its error field.                                        *)
(***************************************************************************)
CleanupErrors == {"stop failed", "remove failed"}

C22_CleanupNeverRecorded ==
    \A id \in Ids : \A rec \in Snapshots(id) :
        /\ IsRecord(rec) => rec.error \notin CleanupErrors
        /\ (Collected(id) /\ Terminal(rec)) => rec.status = "completed"

(***************************************************************************)
(* C23.  A record is terminal, in either backend and in what a status      *)
(* lookup returns, only once the outcome of its execution is determined    *)
(* and, where the execution has a container, the stop or the removal of    *)
(* the container has been called.                                          *)
(***************************************************************************)
OutcomeDetermined(id) == pc[id] \in {"stop", "cleanup", "store", "done"}
CleanupStarted(id) == calls[id].stop >= 1 \/ calls[id].remove >= 1

C23_TerminalAfterCleanupStarted ==
    \A id \in Ids : \A rec \in Snapshots(id) :
        Terminal(rec) =>
            /\ OutcomeDetermined(id)
            /\ container[id] # "none" => CleanupStarted(id)

\* a lookup served from memory returns failed while the task waits for the
\* stop of its container, before the put of the record: the stop was called
C23_Witness ==
    \E id \in Ids : \E ok \in BOOLEAN :
        /\ pc[id] = "stop" /\ container[id] = "running"
        /\ calls[id].put = 0 /\ calls[id].stop = 1
        /\ Terminal(GetExecutionStatus(id, ok))

(***************************************************************************)
(* C24.  The backend is chosen per call: with a primary configured, every  *)
(* put and every get attempts the primary first, also after earlier errors *)
(* of the primary.  A call attempts the primary exactly when redisClient   *)
(* is non-null, so: a redisClient that is non-null stays non-null.         *)
(***************************************************************************)
C24_PrimaryStaysSelected == [][redisClient => redisClient']_vars

(***************************************************************************)
(* C25.  Every stored record expires, on whichever backend holds it: for   *)
(* a record the primary holds and for a record the Map holds, once the     *)
(* task has read it, a step that drops it is possible.                     *)
(***************************************************************************)
C25_RecordsExpire ==
    \A id \in Ids :
        /\ (IsRecord(redis[id]) /\ pc[id] \notin {"stored", "read"}) =>
              ENABLED Expire(id)
        /\ (IsRecord(memoryStorage[id]) /\ pc[id] \notin {"stored", "read"}) =>
              ENABLED (Next /\ Absent(memoryStorage'[id]))

(***************************************************************************)
(* C26.  An error of the engine at creation, start or wait is caught in    *)
(* the task and recorded as failed with the error's message; nothing is    *)
(* retried: createContainer is called at most once per execution, and once *)
(* the task of an execution that met such an error has ended, a backend    *)
(* holds its failed record with that message (or its record is gone).      *)
(***************************************************************************)
InfraError(id) == result[id].kind = "error"

C26_InfraErrorRecorded ==
    \A id \in Ids :
        /\ calls[id].create <= 1
        /\ (Ended(id) /\ InfraError(id)) =>
              \/ \E rec \in Stores(id) :
                    /\ IsRecord(rec) /\ rec.status = "failed"
                    /\ rec.error = result[id].message
              \/ \A rec \in Stores(id) : Absent(rec)

(***************************************************************************)
(* C27.  Nothing that happens while the output is captured makes the       *)
(* execution failed: the terminal record of an execution whose container   *)
(* exited before the timer fired is completed.                             *)
(***************************************************************************)
ExitedBeforeTimeout(id) ==
    \/ result[id].kind = "output"
    \/ result[id].kind = "timeout" /\ result[id].exited

C27_CaptureNeverFails ==
    \A id \in Ids : \A rec \in Snapshots(id) :
        (ExitedBeforeTimeout(id) /\ Terminal(rec)) => rec.status = "completed"

(***************************************************************************)
(* C28.  runCode changes the stored record of its execution once, at its   *)
(* end: from the pending write of executeCode to the put of runCode no     *)
(* step changes what a backend holds for the id (but for the expiry of the *)
(* primary's key), and the task makes exactly one put.                     *)
(***************************************************************************)
C28_OneWriteAtEnd ==
    /\ [][\A id \in Ids :
            pc[id] \notin {"idle", "store"} =>
                /\ memoryStorage'[id] = memoryStorage[id]
                /\ redis'[id] = redis[id] \/ redis'[id] = Expired]_vars
    /\ [](\A id \in Ids :
            /\ calls[id].put <= 1
            /\ Ended(id) => calls[id].put = 1)

(***************************************************************************)
(* C29.  id, language, code, input, timeout and startTime are the same in  *)
(* every snapshot of the record of an id: in what the two backends hold in *)
(* one state, which is what the status lookups of that state return, and   *)
(* in what a backend holds before and after every step.                    *)
(***************************************************************************)
RequestFields == {"id", "language", "code", "timeout", "startTime"}

SameRequestFields(r1, r2) ==
    /\ \A k \in RequestFields : r1[k] = r2[k]
    /\ ("input" \in DOMAIN r1) = ("input" \in DOMAIN r2)
    /\ "input" \in DOMAIN r1 => r1.input = r2.input

\* a step that changes a stored record keeps the fields of the request
KeepsRequestFields(old, new) ==
    (IsRecord(old) /\ IsRecord(new) /\ new # old) =>
        SameRequestFields(ToJSON(old), ToJSON(new))

C29_RequestFieldsFrozen ==
    /\ [](\A id \in Ids :
            /\ (IsRecord(redis[id]) /\ IsRecord(memoryStorage[id])) =>
                  SameRequestFields(ToJSON(redis[id]), ToJSON(memoryStorage[id]))
            /\ \A ok \in BOOLEAN :
                  IsRecord(GetExecutionStatus(id, ok)) =>
                      GetExecutionStatus(id, ok) \in
                          {ToJSON(redis[id]), ToJSON(memoryStorage[id])})
    /\ [][\A id \in Ids :
            /\ KeepsRequestFields(redis[id], redis'[id])
            /\ KeepsRequestFields(memoryStorage[id], memoryStorage'[id])]_vars

\* a lookup returns the completed record with the fields of the request
C29_Witness ==
    \E id \in Ids : \E ok \in BOOLEAN :
        LET rec == GetExecutionStatus(id, ok) IN
        /\ IsRecord(rec) /\ rec.status = "completed" /\ rec.id = id
        /\ rec.language = "python" /\ rec.code = Str(11) /\ rec.timeout = 5
        /\ rec.startTime = "t_start" /\ "input" \notin DOMAIN rec

StepOf(a) ==
    \/ \E req \in Requests, ok \in BOOLEAN : Accept(req, a, ok)
    \/ Return(a)
    \/ RunStep(a)
    \/ UnhandledRejection(a)

Changed(b) ==
    \/ redis'[b] # redis[b]
    \/ memoryStorage'[b] # memoryStorage[b]
    \/ container'[b] # container[b]
    \/ timer'[b] # timer[b]

C31_Independent ==
    [][\A b \in Ids :
        /\ Changed(b) => ~ \E a \in Ids \ {b} : StepOf(a)
        /\ (pc[b] = "idle" /\ pc'[b] = "stored") =>
                /\ Absent(redis[b]) /\ Absent(memoryStorage[b])
                /\ container[b] = "none" /\ timer[b] = "unset"]_vars

(***************************************************************************)
(* C32.  The deadline counts from container start.  A timer exists only    *)
(* for an execution whose container.start has returned (the container was  *)
(* started); while the container is being created or started no timer can  *)
(* fire, so that time is not bounded; and an execution has the timeout     *)
(* outcome only if its timer, armed after the start, has fired.            *)
(***************************************************************************)
BeforeStartReturned(id) == pc[id] \in {"idle", "stored", "read", "create", "start"}

C32_DeadlineFromStart ==
    \A id \in Ids :
        /\ timer[id] # "unset" =>
                ~BeforeStartReturned(id) /\ container[id] \notin {"none", "created"}
        /\ BeforeStartReturned(id) =>
                ~ENABLED Timeout(id) /\ ~ENABLED LateTimer(id) /\ ~TimedOut(id)
        /\ TimedOut(id) => timer[id] = "fired"

\* one execution has timed out while the container of another is still
\* being started, with no timer
C32_Witness ==
    \E a, b \in Ids :
        /\ TimedOut(a) /\ timer[a] = "fired"
        /\ pc[b] = "start" /\ timer[b] = "unset"

(***************************************************************************)
(* C33.  The loser of the race is cleaned up.  Once the exit branch has won *)
(* (the output was collected), the timer is cancelled: it cannot fire and  *)
(* the execution has no timeout outcome.  On every path, once the          *)
(* orchestration task has ended, no timer of the execution is armed.       *)
(***************************************************************************)
C33_LoserCleanedUp ==
    \A id \in Ids :
        /\ Collected(id) =>
                /\ timer[id] = "cleared"
                /\ ~ENABLED Timeout(id) /\ ~ENABLED LateTimer(id)
        /\ Ended(id) => timer[id] # "armed"

C35_ReadFindsPending ==
    \A id \in Ids :
        /\ execution[id].ref # "null"
        /\ execution[id].ref = "own" => execution[id].val.id = id
        /\ pc[id] \notin {"crashed", "exit"}

(***************************************************************************)
(* C36.  The exit code of the program never makes a record failed.  A      *)
(* record is failed only with the message of an exception of the           *)
(* orchestration: container creation, start, wait or removal raising, or   *)
(* the timeout.  In particular the record of an execution whose container  *)
(* exited before the timeout, with any exit code, and was removed, is      *)
(* completed.                                                              *)
(***************************************************************************)
C36_ExitCodeIsNotFailure ==
    \A id \in Ids : \A rec \in Stores(id) :
        (IsRecord(rec) /\ rec.status = "failed") =>
            \/ InfraError(id) /\ rec.error = result[id].message
            \/ TimedOut(id) /\ rec.error = "Execution timeout"
            \/ Collected(id) /\ rec.error = "remove failed"

\* the program has exited with code 1 and its record is completed, with the
\* exit code reported in the error text
C36_Witness ==
    \E id \in Ids : \E rec \in Stores(id) :
        /\ pc[id] = "done"
        /\ Collected(id) /\ result[id].exitCode = 1
        /\ IsRecord(rec) /\ rec.status = "completed"
        /\ rec.error = "Container exited with code 1"

(***************************************************************************)
(* C37.  After the timeout has won the race, a later exit of the container *)
(* and the output collection that follows it do not change the outcome:    *)
(* the steps of the exit branch leave the record, the task and the         *)
(* container as they are (what they collect is discarded), a stored record *)
(* that is failed with the timeout message stays as it is for as long as   *)
(* it is stored, and the task writes its terminal record at most once.     *)
(***************************************************************************)
\* the step is one of the exit branch of id, after the timeout
LateBranchStep(id) == TimedOut(id) /\ result'[id] # result[id]

StaysTimeoutRecord(old, new) ==
    TimeoutRecord(old) => (new = old \/ Absent(new))

C37_LateExitChangesNothing ==
    /\ [](\A id \in Ids : TimedOut(id) => calls[id].put <= 1)
    /\ [][\A id \in Ids :
            /\ LateBranchStep(id) =>
                    UNCHANGED <<redis, memoryStorage, execution, pc, container,
                                timer, calls, http>>
            /\ TimedOut(id) =>
                    /\ StaysTimeoutRecord(redis[id], redis'[id])
                    /\ StaysTimeoutRecord(memoryStorage[id], memoryStorage'[id])
       ]_vars

\* the timer fired while the container was running; the container exited
\* afterwards, its output was collected and discarded, and the record
\* written at the end is the one of the timeout
C37_Witness ==
    \E id \in Ids :
        /\ TimedOut(id) /\ ~result[id].exited
        /\ result[id].branch = "discarded"
        /\ pc[id] = "done" /\ calls[id].put = 1
        /\ \E rec \in Stores(id) : TimeoutRecord(rec)

(***************************************************************************)
(* MemorySpec: the service started without REDIS_URL, so that redisClient  *)
(* is null from the start and memoryStorage is the only backend; the       *)
(* submissions are of one program, with and without an input.              *)
(***************************************************************************)
MemoryInit == Init /\ ~redisClient

MemoryRequests ==
    { [language |-> "python", code |-> 11, timeout |-> 5],
      [language |-> "python", code |-> 11, input |-> 3, timeout |-> 5] }

NextMemory ==
    \/ \E req \in MemoryRequests, id \in Ids, ok \in BOOLEAN : Accept(req, id, ok)
    \/ \E id \in Ids : Return(id)
    \/ \E id \in Ids, ok \in BOOLEAN : Lookup(id, ok)
    \/ \E id \in Ids : RunStep(id)

MemorySpec == MemoryInit /\ [][NextMemory]_vars

(***************************************************************************)
(* C38.  The input does not influence the execution.  Two accepted         *)
(* submissions that differ at most in input are given the same container   *)
(* configuration and command, and, when their containers and the engine    *)
(* behave the same, end with the same status, output and error.  The input *)
(* is only kept, as it was sent, in the input field of the record.         *)
(***************************************************************************)
SameButInput(a, b) ==
    /\ IsRecord(memoryStorage[a]) /\ IsRecord(memoryStorage[b])
    /\ memoryStorage[a].language = memoryStorage[b].language
    /\ memoryStorage[a].code = memoryStorage[b].code
    /\ memoryStorage[a].timeout = memoryStorage[b].timeout

\* the engine and the containers of a and b have done the same
SameBehaviour(a, b) ==
    /\ result[a].kind = result[b].kind
    /\ Collected(a) => result[a].out = result[b].out
    /\ InfraError(a) => result[a].message = result[b].message
    /\ calls[a].stop = calls[b].stop /\ calls[a].remove = calls[b].remove

SameEnd(a, b) ==
    /\ memoryStorage[a].status = memoryStorage[b].status
    /\ memoryStorage[a].output = memoryStorage[b].output
    /\ memoryStorage[a].error = memoryStorage[b].error

C39_MonotoneLookups ==
    /\ [](\A id \in Ids, ok \in BOOLEAN :
            Returned(id) => StatusRoute(id, ok).code = 200)
    /\ [][\A id \in Ids, ok \in BOOLEAN :
            (StatusRoute(id, ok).code = 200 /\ Terminal(StatusRoute(id, ok).body)) =>
                \A later \in BOOLEAN : StatusRoute(id, later)' = StatusRoute(id, ok)
       ]_vars

\* a lookup finds the record pending for one id and terminal for the other
C39_Witness ==
    /\ ~redisClient
    /\ \E a, b \in Ids :
        /\ Returned(a) /\ StatusRoute(a, TRUE).code = 200
        /\ Pending(StatusRoute(a, TRUE).body)
        /\ pc[b] = "done" /\ StatusRoute(b, TRUE).code = 200
        /\ Terminal(StatusRoute(b, TRUE).body)

(***************************************************************************)
(* C40.  parseDockerLogs terminates on every buffer, malformed ones        *)
(* included.  Every iteration of its loop either leaves the loop or moves  *)
(* the offset forward by at least 8; the offset never exceeds the length   *)
(* of the buffer; every position read lies inside the buffer.  So the loop *)
(* makes at most one iteration per 8 bytes, and one more to stop.          *)
(***************************************************************************)
HeaderLength == 8

C40_ParseTerminates ==
    ~capture.raised =>
        LET buffer == CapturedBuffer
            trace == LoopTrace(buffer, 0)
        IN  /\ Len(trace) <= (Len(buffer) \div HeaderLength) + 1
            /\ \A i \in 1..Len(trace) :
                  /\ trace[i].stopped \/ trace[i].next >= trace[i].offset + HeaderLength
                  /\ trace[i].stopped => i = Len(trace)
                  /\ trace[i].offset <= Len(buffer) /\ trace[i].next <= Len(buffer)
                  /\ \A at \in trace[i].reads : 0 <= at /\ at < Len(buffer)
                  /\ i > 1 => trace[i].offset = trace[i - 1].next
            /\ Len(SelectSeq(trace, LAMBDA it : ~it.stopped))
                  = Len(ParseFrames(buffer, 0))
            /\ Returns => capture.out = ParseDockerLogs(buffer) \/ Len(buffer) = 0

\* getContainerOutput has returned on a buffer of an empty frame, a frame of
\* two bytes and a header that declares 256 bytes which are not there: the
\* loop made three iterations, from the offsets 0, 8 and 18, and stopped
C40_Witness ==
    /\ Returns /\ ~capture.raised
    /\ FramesIn = << <<1, <<>>>>, <<2, <<104, 105>>>> >>
    /\ capture.tail = <<2, 0, 0, 0, 0, 0, 1, 0>>
    /\ LET trace == LoopTrace(CapturedBuffer, 0)
       IN  /\ Len(trace) = 3
           /\ trace[1].next = 8 /\ trace[2].next = 18
           /\ trace[3].offset = 18 /\ trace[3].stopped

====
